---- MODULE Spec2Model ----
(***************************************************************************)
(* one-p: the conversation orchestration loop (ConversationManager), the   *)
(* tool executor's dispatch (ToolExecutor.execute) and the interactive     *)
(* prompt loop of the chat command, as a state machine.                    *)
(*                                                                         *)
(* Texts are sequences of string pieces (a user line is a sequence of      *)
(* characters), so that trim() and toLowerCase() are computed.  A tool     *)
(* input is opaque to the orchestrator and is one value.  A tool result    *)
(* is the envelope {success, error}; JSON.stringify of it is kept as the   *)
(* envelope itself.  The Document Store is the set of files the handlers   *)
(* write.  The runs differ in what the gateway asks for and what the user  *)
(* types (cfg); the getHistory runs have a caller of the public methods    *)
(* in place of the chat command.                                           *)
(***************************************************************************)
EXTENDS Naturals, Sequences, FiniteSets, TLC

VARIABLES
    messages,       \* ConversationManager.messages
    pc,             \* where the session's single thread of control is
    toolUseBlocks,  \* handleResponse: the tool_use blocks of the response
    toolResults,    \* handleResponse: the tool_result blocks built so far
    cfg,            \* the run: the kinds of content items the gateway returns, the
                    \* lines the user types, the budgets
    lastCmd,        \* the line that ended the session, trimmed and lower-cased
    lastResponse,   \* the response without tool invocations that the last gateway call returned
    roundEnd,       \* messages as they were when the last round ended
    failures,       \* failed gateway calls in the current (or last) chat()
    reported,       \* errors printed by processConversation in the current chat()
    chatOutcome,    \* how the last chat() ended for its caller
    execLog,        \* execute() calls and returns of the current round, in order
    running,        \* invocation ids whose execute() call is in progress
    lastEvent,      \* the tool and the event of the execute() call that settled last
    threw,          \* an error escaped execute() in the current (or last) chat()
    store,          \* the Document Store: the files under <project>/features
    lastInput,      \* the input of the execute() call that settled last
    discarded,      \* <<n>> once clearHistory has dropped n messages, until the next
                    \* gateway call settles
    rounds,         \* rounds with tool invocations in the current (or last) chat()
    chatBase,       \* Len(messages) when the current (or last) chat() was called
    sent,           \* the arguments of the last sendMessage call of the current chat()
    received,       \* the content items of the response handleResponse was given last
    displayed,      \* the text items handleResponse has displayed of that response
    typed,          \* the line the callback of rl.question was called with last, <<>>
                    \* once a gateway call made for it has settled
    objects,        \* the message objects ever created (the getHistory runs)
    held,           \* this.messages as an array of references into objects
    snapshot,       \* the array getHistory() returned, in its caller's hands
    op,             \* the last operation of the getHistory runs
    call,           \* the handler call made last in the handler runs: tool and input
    outcome,        \* what that call returned
    asked,          \* what the handler has shown and asked the user, with the answers
    at,             \* the prompt the handler is waiting at, "idle" when none
    apiKeyEnv,      \* process.env.ANTHROPIC_API_KEY, NoKey when not set
    settingsKey,    \* apiKey of the persisted settings, NoKey when there is none
    client,         \* the module's cached gateway client
    currentApiKey,  \* the module's record of the key the cached client was built with
    variant,        \* which of the two getAnthropicClient of the sources is linked
    got             \* the outcome of the last getAnthropicClient() call

\* the state of the getHistory runs
aliasVars == <<objects, held, snapshot, op>>

\* the state of the handler runs
handlerVars == <<call, outcome, asked, at>>

\* the state of the gateway client runs
clientVars == <<apiKeyEnv, settingsKey, client, currentApiKey, variant, got>>

\* the state of the session
sessionVars == <<messages, pc, toolUseBlocks, toolResults, cfg,
                 lastCmd, lastResponse, roundEnd, failures, reported, chatOutcome,
                 execLog, running, lastEvent, threw, store, lastInput, discarded,
                 rounds, chatBase, sent, received, displayed, typed>>

vars == <<messages, pc, toolUseBlocks, toolResults, cfg,
          lastCmd, lastResponse, roundEnd, failures, reported, chatOutcome,
          execLog, running, lastEvent, threw, store, lastInput, discarded,
          rounds, chatBase, sent, received, displayed, typed, objects, held, snapshot, op, call, outcome, asked, at,
          apiKeyEnv, settingsKey, client, currentApiKey, variant, got>>

(***************************************************************************)
(* Bounds of the model.                                                    *)
(***************************************************************************)
MaxMsgs == 4        \* messages History holds (Spec)
MaxBlocks == 2      \* content items of one response (Spec)
ToolsMaxMsgs == 3   \* messages History holds (SpecTools)
ToolsMaxBlocks == 2 \* content items of one response (SpecTools)
RoundsMaxMsgs == 8  \* messages History holds (SpecRounds)
StoreMaxMsgs == 3   \* messages History holds (SpecStore)
StoreMaxBlocks == 2 \* content items of one response (SpecStore)
UpdateMaxMsgs == 3  \* messages History holds (SpecUpdate)
UpdateMaxBlocks == 2 \* content items of one response (SpecUpdate)
LongMaxMsgs == 3    \* messages History holds (SpecLongRound)
LongMaxBlocks == 3  \* content items of one response (SpecLongRound)
AliasMaxObjs == 3   \* message objects created (SpecAlias)

(***************************************************************************)
(* Tool names.                                                             *)
(***************************************************************************)
ToolName ==
    {"create_story", "update_story", "list_stories", "create_feature",
     "list_features", "search_stories", "ask_user_question", "present_draft",
     "analyze_story_quality"}

UnknownNames == {"not_a_real_tool"}

InteractiveTools == {"ask_user_question", "present_draft"}

\* the names the gateway asks for in the orchestration runs
OrchTools == {"ask_user_question", "not_a_real_tool"}

StopReasons == {"end_turn", "tool_use", "max_tokens"}

(***************************************************************************)
(* Content blocks and messages.                                            *)
(***************************************************************************)
NoResult == [success |-> FALSE, error |-> <<>>]

TextBlock(t) ==
    [type |-> "text", text |-> t, id |-> 0, name |-> "", content |-> NoResult]

ToolUseBlock(id, name) ==
    [type |-> "tool_use", text |-> <<>>, id |-> id, name |-> name, content |-> NoResult]

ToolResultBlockWrongId(toolUse, result) ==
    [type |-> "tool_result", text |-> <<>>, id |-> 0, name |-> "", content |-> result]

ToolResultBlock(toolUse, result) ==
    [type |-> "tool_result", text |-> <<>>, id |-> toolUse.id, name |-> "",
     content |-> result]

StringMessage(role, text) ==
    [role |-> role, kind |-> "string", text |-> text, blocks |-> <<>>]

BlockMessage(role, blocks) ==
    [role |-> role, kind |-> "blocks", text |-> <<>>, blocks |-> blocks]

IsToolUse(b) == b.type = "tool_use"

IsText(b) == b.type = "text"

\* toolUseBlocks of handleResponse: the tool_use blocks, in order
ToolUses(content) == SelectSeq(content, IsToolUse)

\* hasText of handleResponse
HasText(content) == \E i \in 1..Len(content) : IsText(content[i])

(***************************************************************************)
(* The gateway's responses: every content of at most maxBlocks items of    *)
(* the given kinds (a text item, a tool invocation of a name), the         *)
(* invocation ids fresh and increasing, with every stop reason.            *)
(***************************************************************************)
Shapes(kinds, maxBlocks) ==
    UNION {[1..n -> kinds] : n \in 0..maxBlocks}

NumTools(shape, n) == Cardinality({i \in 1..n : shape[i] # "text"})

ContentOf(shape, base) ==
    [i \in 1..Len(shape) |->
        IF shape[i] = "text"
        THEN TextBlock(<<"t">>)
        ELSE ToolUseBlock(base + NumTools(shape, i), shape[i])]

Responses(kinds, maxBlocks, base) ==
    {[content |-> ContentOf(s, base), stop_reason |-> r] :
        s \in Shapes(kinds, maxBlocks), r \in StopReasons}

\* the responses whose round fits in the room History has left: a round with tool
\* invocations adds two messages, a final answer one
ResponsesWithin(kinds, maxBlocks, base, room) ==
    IF room >= 2 THEN Responses(kinds, maxBlocks, base)
    ELSE IF room = 1 THEN Responses(kinds \cap {"text"}, maxBlocks, base)
    ELSE {r \in Responses(kinds \cap {"text"}, maxBlocks, base) :
            ~(r.stop_reason = "end_turn" /\ r.content # <<>>)}

\* the tool invocations a History holds
RECURSIVE NumToolUses(_)
NumToolUses(msgs) ==
    IF msgs = <<>> THEN 0
    ELSE Len(ToolUses(Head(msgs).blocks)) + NumToolUses(Tail(msgs))

\* invocation ids are unique in the conversation: the ids of a response follow
\* those the History holds
FreshBase(msgs) == NumToolUses(msgs)

NoResponse == [content |-> <<>>, stop_reason |-> "none"]

\* this.systemPrompt, assigned in the constructor only
systemPrompt == "BA_SYSTEM_PROMPT"

\* the tool schema handed to every gateway call
toolDefinitions == ToolName

\* no gateway call has been made in the current chat()
NoSent ==
    [system |-> "", tools |-> {}, messages |-> <<>>, later |-> FALSE, before |-> <<>>]

\* sendMessage(this.systemPrompt, this.messages, toolDefinitions) of processConversation;
\* later and before remember the previous call of the same chat()
SendMessageArgs(msgs, previous) ==
    [system |-> systemPrompt, tools |-> toolDefinitions, messages |-> msgs,
     later |-> previous # NoSent, before |-> previous.messages]

\* the assistant message keeps the tool invocations only
AssistantMessageOfTools(contentBlocks) ==
    [role |-> "assistant", kind |-> "blocks", text |-> <<>>,
     blocks |-> SelectSeq(contentBlocks, IsToolUse)]

\* { role: 'assistant', content: contentBlocks } of handleResponse
AssistantMessage(contentBlocks) ==
    [role |-> "assistant", kind |-> "blocks", text |-> <<>>, blocks |-> contentBlocks]

\* the display stops after the first content item, and at a tool invocation
DisplayedBeforeTools(contentBlocks) ==
    IF contentBlocks = <<>> \/ IsToolUse(contentBlocks[1]) THEN <<>>
    ELSE <<[item |-> 1, text |-> contentBlocks[1].text]>>

\* the first loop of handleResponse over the first n content items: what
\* displayAIResponse has been called with, each with the position of its item
RECURSIVE DisplayLoop(_, _)
DisplayLoop(contentBlocks, n) ==
    IF n = 0 THEN <<>>
    ELSE IF IsText(contentBlocks[n])
    THEN Append(DisplayLoop(contentBlocks, n - 1),
                [item |-> n, text |-> contentBlocks[n].text])
    ELSE DisplayLoop(contentBlocks, n - 1)

Displayed(contentBlocks) == DisplayLoop(contentBlocks, Len(contentBlocks))

NoEvent == [name |-> "", event |-> ""]

(***************************************************************************)
(* The Document Store: StorageManager over the files of the project.  A    *)
(* file is a path and the record written to it; '' stands for a field      *)
(* that is undefined.                                                      *)
(***************************************************************************)
EmptyStore == [stories |-> {}, features |-> {}]

\* story.feature || 'backlog'
FeatureOr(feature) == IF feature = "" THEN "backlog" ELSE feature

\* getStoryPath
StoryPath(featureId, storyId) == <<"features", featureId, "stories", storyId>>

\* getFeaturePath
FeaturePath(featureId) == <<"features", featureId, "feature.md">>

File(path, content) == [path |-> path, content |-> content]

WriteFileKeepsOld(files, path, content) == files \cup {File(path, content)}

\* fs.writeFileSync: the file at path holds content, whatever it held
WriteFile(files, path, content) ==
    {f \in files : f.path # path} \cup {File(path, content)}

\* fs.existsSync
Exists(files, path) == \E f \in files : f.path = path

\* fs.readFileSync
ReadFile(files, path) == (CHOOSE f \in files : f.path = path).content

\* the Story the create_story handler builds from its input
NewStory(input) ==
    [id |-> input.id, title |-> input.title, status |-> "draft",
     feature |-> input.feature]

\* the Feature the create_feature handler builds from its input
NewFeature(input) == [id |-> input.id, title |-> input.title, status |-> "draft"]

\* the Story the update_story handler writes: { ...existingStory, ...updates }
UpdatedStory(existing, input) ==
    [k \in DOMAIN existing \cup DOMAIN input.updates |->
        IF k \in DOMAIN input.updates THEN input.updates[k] ELSE existing[k]]

\* an updates object without a field
NoUpdates == [k \in {} |-> ""]

\* the inputs of the tool invocations: id, feature, the title and status a create
\* carries, and the updates object of an update
NoInput ==
    [id |-> "", feature |-> "", title |-> "", status |-> "", updates |-> NoUpdates]

OneInput ==
    {[id |-> "s1", feature |-> "", title |-> "A", status |-> "draft",
      updates |-> [title |-> "A", status |-> "draft"]]}

StoreInputs ==
    {[id |-> "s1", feature |-> f, title |-> e[1], status |-> e[2],
      updates |-> [title |-> e[1], status |-> e[2]]] :
        f \in {"", "f1"}, e \in {<<"A", "draft">>, <<"B", "ready">>}}

\* the updates objects of the update runs: a field of the tool schema, and the
\* fields feature and id, which the handler spreads like any other
UpdatesObjects ==
    {[title |-> "B"], [status |-> "ready"], [title |-> "B", status |-> "ready"],
     [feature |-> "f1"], [id |-> "s2"]}

UpdateInputs ==
    {[id |-> "s1", feature |-> f, title |-> "A", status |-> "draft", updates |-> u] :
        f \in {"", "f1"}, u \in UpdatesObjects}

(***************************************************************************)
(* ToolExecutor.                                                           *)
(***************************************************************************)
\* what can happen inside a handler while execute() is in progress
HandlerEvents(name) ==
    CASE name \in InteractiveTools -> {"answered", "cancelled", "bad_input"}
      [] name \in {"update_story", "analyze_story_quality"} ->
            {"ok", "missing", "store_error", "bad_input"}
      [] name = "list_features" -> {"ok", "store_error"}
      [] name \in ToolName -> {"ok", "store_error", "bad_input"}
      [] OTHER -> {"none"}

\* the events that raise an error inside the handler's try block
Raises(event) == event \in {"cancelled", "store_error", "bad_input"}

\* the prefix of the error message of each handler's catch block
FailPrefix(name) ==
    CASE name = "create_story" -> "Failed to create story: "
      [] name = "update_story" -> "Failed to update story: "
      [] name = "list_stories" -> "Failed to list stories: "
      [] name = "create_feature" -> "Failed to create feature: "
      [] name = "list_features" -> "Failed to list features: "
      [] name = "search_stories" -> "Failed to search stories: "
      [] name = "ask_user_question" -> "Failed to get user input: "
      [] name = "present_draft" -> "Failed to present draft: "
      [] name = "analyze_story_quality" -> "Failed to analyze story: "
      [] OTHER -> ""

\* update_story reads the story first: it goes on when the file is there and
\* answers 'not found' when it is not; the other outcomes do not depend on the store
EventPossible(st, name, input, event) ==
    name = "update_story" =>
        LET there == Exists(st.stories, StoryPath(FeatureOr(input.feature), input.id))
        IN  /\ event = "ok" => there
            /\ event = "missing" => ~there

\* every handler writes the story of its input
WrittenByAll(st, name, input) ==
    [st EXCEPT !.stories =
        WriteFile(@, StoryPath(FeatureOr(input.feature), input.id), NewStory(input))]

\* the Document Store after a handler has run without an error
Written(st, name, input) ==
    CASE name = "create_story" ->
            [st EXCEPT !.stories =
                WriteFile(@, StoryPath(FeatureOr(input.feature), input.id),
                          NewStory(input))]
      [] name = "update_story" ->
            LET existing == ReadFile(st.stories,
                                StoryPath(FeatureOr(input.feature), input.id))
                updated == UpdatedStory(existing, input)
            IN  [st EXCEPT !.stories =
                    WriteFile(@, StoryPath(FeatureOr(updated.feature), updated.id),
                              updated)]
      [] name = "create_feature" ->
            [st EXCEPT !.features =
                WriteFile(@, FeaturePath(input.id), NewFeature(input))]
      [] OTHER -> st

CommitUpserts(st, name, input, event) ==
    IF event = "ok" THEN Written(st, name, input)
    ELSE IF name = "update_story" /\ event = "missing"
         THEN [st EXCEPT !.stories =
                  WriteFile(@, StoryPath(FeatureOr(input.feature), input.id),
                            NewStory(input))]
         ELSE st

CommitOrWipe(st, name, input, event) ==
    IF event = "ok" THEN Written(st, name, input) ELSE EmptyStore

\* the Document Store after execute() has settled: a handler that fails has
\* written nothing
Commit(st, name, input, event) ==
    IF event = "ok" THEN Written(st, name, input) ELSE st

HandlerCatchesExceptListFeatures(name) == name \in ToolName \ {"list_features"}

\* every handler wraps its whole body in try/catch
HandlerCatches(name) == name \in ToolName

\* the error of a handler that finds no story: update_story names the story and
\* the feature, analyze_story_quality the story
NotFound(name, input) ==
    IF name = "update_story"
    THEN <<"Story \"", input.id, "\" not found in feature \"",
           FeatureOr(input.feature), "\"">>
    ELSE <<"Story \"", input.id, "\" not found">>

\* the default branch of execute's switch
UnknownToolResult(name) == [success |-> FALSE, error |-> <<"Unknown tool: ", name>>]

\* the result execute() returns when it returns
Execute(name, input, event) ==
    IF name \notin ToolName
    THEN UnknownToolResult(name)
    ELSE IF Raises(event)
         THEN [success |-> FALSE, error |-> <<FailPrefix(name), "message">>]
         ELSE IF event = "missing"
              THEN [success |-> FALSE, error |-> NotFound(name, input)]
              ELSE [success |-> TRUE, error |-> <<>>]

ExecuteThrowsOnUnknown(name, event) ==
    name \notin ToolName \/ (Raises(event) /\ ~HandlerCatches(name))

\* whether execute() throws instead of returning
ExecuteThrows(name, event) ==
    name \in ToolName /\ Raises(event) /\ ~HandlerCatches(name)

(***************************************************************************)
(* String.trim and String.toLowerCase on a line of characters.            *)
(***************************************************************************)
Upper == <<"A", "C", "E", "H", "I", "L", "P", "Q", "R", "T", "U", "X">>

Lower == <<"a", "c", "e", "h", "i", "l", "p", "q", "r", "t", "u", "x">>

LowerChar(c) ==
    IF \E i \in 1..Len(Upper) : Upper[i] = c
    THEN Lower[CHOOSE i \in 1..Len(Upper) : Upper[i] = c]
    ELSE c

ToLowerCase(s) == [i \in 1..Len(s) |-> LowerChar(s[i])]

IsSpace(c) == c = " "

RECURSIVE TrimStart(_)
TrimStart(s) ==
    IF s # <<>> /\ IsSpace(Head(s)) THEN TrimStart(Tail(s)) ELSE s

RECURSIVE TrimEnd(_)
TrimEnd(s) ==
    IF s # <<>> /\ IsSpace(s[Len(s)]) THEN TrimEnd(SubSeq(s, 1, Len(s) - 1)) ELSE s

Trim(s) == TrimEnd(TrimStart(s))

\* the lines the user types
Lines ==
    {<<>>, <<" ">>,
     <<"e", "x", "i", "t">>, <<" ", "Q", "u", "i", "t", " ">>,
     <<"C", "L", "E", "A", "R">>, <<"h", "e", "l", "p">>,
     <<"h", "i">>, <<" ", "h", "i", " ">>}

\* the lines of the executor runs
ToolsLines == {<<"h", "i">>, <<"e", "x", "i", "t">>}

ExitWords == {<<"e", "x", "i", "t">>, <<"q", "u", "i", "t">>}

ClearWord == <<"c", "l", "e", "a", "r">>

HelpWord == <<"h", "e", "l", "p">>

\* exit is the only word that ends the session
IsExitWithoutQuit(lower) == lower = <<"e", "x", "i", "t">>

\* the exit test of the prompt callback
IsExit(lower) == lower \in ExitWords

\* the words that end a story new or feature new session
GuidedExitWords == {<<"d", "o", "n", "e">>, <<"e", "x", "i", "t">>}

\* the commands that open a session
Commands == {"chat", "story new", "feature new"}

\* the exit test of the prompt callback of a command
IsExitIn(command, lower) ==
    IF command = "chat" THEN IsExit(lower) ELSE lower \in GuidedExitWords

\* the message a story new or feature new session opens with
OpeningText(command) ==
    IF command = "story new"
    THEN <<"I want to create a new user story.">>
    ELSE <<"I want to create a new feature/epic.">>

\* rl.question is waiting for a line while chat() is in progress as well
QuestionPendingInChat(p) == p \in {"prompt", "send"}

\* rl.question is waiting for a line: prompt() has been called and its callback has
\* not run
QuestionPending(p) == p = "prompt"

(***************************************************************************)
(* ConversationManager.                                                    *)
(***************************************************************************)
ContextText == <<"[Context] ", "project">>

AckText == <<"I understand the context. How can I help you?">>

addContextUserOnly(msgs) == Append(msgs, StringMessage("user", ContextText))

addContext(msgs) ==
    Append(Append(msgs, StringMessage("user", ContextText)),
           StringMessage("assistant", AckText))

clearHistoryKeepsContext(msgs) ==
    IF Len(msgs) >= 2 THEN SubSeq(msgs, 1, 2) ELSE msgs

clearHistory(msgs) == <<>>

chatPushesTwice(msgs, userMessage) ==
    Append(Append(msgs, StringMessage("user", userMessage)),
           StringMessage("user", userMessage))

\* messages after the push of chat()
chat(msgs, userMessage) == Append(msgs, StringMessage("user", userMessage))

CatchRollsBack(msgs) == SubSeq(msgs, 1, Len(msgs) - 1)

CatchAppendsPartial(msgs) == Append(msgs, BlockMessage("assistant", <<>>))

\* messages after the catch block of processConversation
CatchMessages(msgs) == msgs

CatchContinueLoopRetry == TRUE

\* continueLoop as the catch block of processConversation sets it
CatchContinueLoop == FALSE

\* the tool results are pushed as a message after every execute()
PushedPerTool(results, blocks) == TRUE

\* the for loop of handleResponse has run over every tool_use block: the push of the
\* tool results follows
LoopDone(results, blocks) == Len(results) = Len(blocks)

NextToolIndexReversed(blocks, results) == Len(blocks) - Len(results)

\* the position in toolUseBlocks the for loop of handleResponse is at
NextToolIndex(blocks, results) == Len(results) + 1

AfterChatExits == "exited"

\* the prompt callback after chat() has settled: prompt() again
AfterChat == "prompt"

\* chat() as its caller sees it end; processConversation catches every error
ChatEnds(error) == "returned"

\* no handler has been called
NoCall == [name |-> "", input |-> <<>>]

HandlerInit ==
    /\ call = NoCall
    /\ outcome = NoResult
    /\ asked = <<>>
    /\ at = "idle"

\* no gateway client has been asked for
\* no key: undefined, null or the empty string
NoKey == <<>>

NoClient == [built |-> FALSE, apiKey |-> NoKey]

NoOutcome ==
    [called |-> FALSE, threw |-> FALSE, error |-> "", client |-> NoClient,
     fresh |-> FALSE, sent |-> FALSE, calls |-> 0, previous |-> NoClient]

ClientInit(e, k, v) ==
    /\ apiKeyEnv = e
    /\ settingsKey = k
    /\ client = NoClient
    /\ currentApiKey = NoKey
    /\ variant = v
    /\ got = NoOutcome

AliasInit ==
    /\ objects = <<>>
    /\ held = <<>>
    /\ snapshot = [taken |-> FALSE, refs |-> <<>>]
    /\ op = "none"

\* a session before its first step, in a run c, over the Document Store st
SessionInit(c, start, st) ==
    /\ messages = <<>>
    /\ pc = start
    /\ toolUseBlocks = <<>>
    /\ toolResults = <<>>
    /\ cfg = c
    /\ lastCmd = <<>>
    /\ lastResponse = NoResponse
    /\ roundEnd = <<>>
    /\ failures = 0
    /\ reported = 0
    /\ chatOutcome = "none"
    /\ execLog = <<>>
    /\ running = {}
    /\ lastEvent = NoEvent
    /\ threw = FALSE
    /\ store = st
    /\ lastInput = NoInput
    /\ discarded = <<>>
    /\ rounds = 0
    /\ chatBase = 0
    /\ sent = NoSent
    /\ received = <<>>
    /\ displayed = <<>>
    /\ typed = <<>>

InitCfg(c, start) ==
    /\ SessionInit(c, start, EmptyStore)
    /\ AliasInit
    /\ HandlerInit
    /\ ClientInit(NoKey, NoKey, "models")

\* the orchestration runs
OrchCfg ==
    [kinds |-> {"text"} \cup OrchTools, lines |-> Lines, inputs |-> OneInput,
     maxMsgs |-> MaxMsgs, maxBlocks |-> MaxBlocks, command |-> "chat"]

Init == InitCfg(OrchCfg, "start")

\* the executor runs: every registered name and an unknown one
ToolsCfg ==
    [kinds |-> ToolName \cup UnknownNames, lines |-> ToolsLines, inputs |-> OneInput,
     maxMsgs |-> ToolsMaxMsgs, maxBlocks |-> ToolsMaxBlocks, command |-> "chat"]

InitTools == InitCfg(ToolsCfg, "start")

\* the runs of many rounds: one invocation a round, of the tools of a story-writing
\* exchange, and text
RoundsCfg ==
    [kinds |-> {"text", "ask_user_question", "present_draft", "create_story"},
     lines |-> ToolsLines, inputs |-> OneInput,
     maxMsgs |-> RoundsMaxMsgs, maxBlocks |-> 1, command |-> "chat"]

InitRounds == InitCfg(RoundsCfg, "start")

\* the Document Store runs: the handlers that write, with inputs that collide
StoreCfg ==
    [kinds |-> {"create_story", "update_story", "create_feature"},
     lines |-> {<<"h", "i">>, <<"c", "l", "e", "a", "r">>, <<"e", "x", "i", "t">>},
     inputs |-> StoreInputs,
     maxMsgs |-> StoreMaxMsgs, maxBlocks |-> StoreMaxBlocks, command |-> "chat"]

InitStore == InitCfg(StoreCfg, "start")

\* the runs of long rounds: three invocations and more a round, of handlers that
\* write the Document Store and can fail
LongCfg ==
    [kinds |-> {"create_story", "update_story"}, lines |-> ToolsLines,
     inputs |-> OneInput, maxMsgs |-> LongMaxMsgs, maxBlocks |-> LongMaxBlocks,
     command |-> "chat"]

InitLongRound == InitCfg(LongCfg, "start")

\* the update runs: create_story and update_story with every updates object
UpdateCfg ==
    [kinds |-> {"create_story", "update_story"}, lines |-> {<<"h", "i">>},
     inputs |-> UpdateInputs, maxMsgs |-> UpdateMaxMsgs, maxBlocks |-> UpdateMaxBlocks,
     command |-> "chat"]

InitUpdate == InitCfg(UpdateCfg, "start")

\* the runs of the three commands that open a session
SessionsMaxMsgs == 4
SessionsMaxBlocks == 2

SessionsCfg(command) ==
    [kinds |-> {"text", "ask_user_question", "create_story"},
     lines |-> {<<>>, <<"h", "i">>, <<"d", "o", "n", "e">>, <<"E", "x", "i", "t">>,
                <<"c", "l", "e", "a", "r">>},
     inputs |-> OneInput, maxMsgs |-> SessionsMaxMsgs, maxBlocks |-> SessionsMaxBlocks,
     command |-> command]

InitSessions == \E command \in Commands : InitCfg(SessionsCfg(command), "start")

\* the getHistory runs: a caller of ConversationManager's public methods
InitAlias == InitCfg(OrchCfg, "api")

\* the command's action up to the first prompt() or the first await: the chat
\* command calls addContext when the project has a config; story new and feature
\* new call chat() with their opening message and prompt when it has settled
SessionStart ==
    /\ pc = "start"
    /\ IF cfg.command = "chat"
       THEN /\ \E hasConfig \in BOOLEAN :
                messages' = IF hasConfig THEN addContext(messages) ELSE messages
            /\ pc' = "prompt"
            /\ UNCHANGED chatOutcome
       ELSE /\ messages' = chat(messages, OpeningText(cfg.command))
            /\ pc' = "send"
            /\ chatOutcome' = "pending"
    /\ roundEnd' = messages'
    /\ UNCHANGED <<toolUseBlocks, toolResults, cfg, lastCmd, lastResponse, failures,
                   reported, execLog, running, lastEvent, threw,
                   store, lastInput, discarded, rounds, chatBase, sent, received,
                   displayed, typed>>
    /\ UNCHANGED <<aliasVars, handlerVars, clientVars>>

\* the callback of rl.question, up to the first await of chat(); what the caller
\* saw of the previous chat() is forgotten when the next line is read
PromptCallback ==
    /\ QuestionPending(pc)
    /\ \E input \in cfg.lines :
        LET trimmedInput == Trim(input)
            lower == ToLowerCase(trimmedInput)
        IN  /\ typed' = input
            /\ IF trimmedInput = <<>>
               THEN /\ pc' = "prompt"
                    /\ chatOutcome' = "none"
                    /\ chatBase' = 0
                    /\ UNCHANGED <<messages, roundEnd, lastCmd, discarded>>
               ELSE IF IsExitIn(cfg.command, lower)
               THEN /\ pc' = "exited"
                    /\ lastCmd' = lower
                    /\ chatOutcome' = "none"
                    /\ chatBase' = 0
                    /\ UNCHANGED <<messages, roundEnd, discarded>>
               ELSE IF cfg.command = "chat" /\ lower = ClearWord
               THEN /\ messages' = clearHistory(messages)
                    /\ discarded' = <<Len(messages)>>
                    /\ roundEnd' = messages'
                    /\ pc' = "prompt"
                    /\ chatOutcome' = "none"
                    /\ chatBase' = 0
                    /\ UNCHANGED lastCmd
               ELSE IF cfg.command = "chat" /\ lower = HelpWord
               THEN /\ pc' = "prompt"
                    /\ chatOutcome' = "none"
                    /\ chatBase' = 0
                    /\ UNCHANGED <<messages, roundEnd, lastCmd, discarded>>
               ELSE \* chat(trimmedInput), then processConversation up to sendMessage
                    /\ Len(messages) < cfg.maxMsgs
                    /\ messages' = chat(messages, trimmedInput)
                    /\ chatBase' = Len(messages)
                    /\ roundEnd' = messages'
                    /\ pc' = "send"
                    /\ chatOutcome' = "pending"
                    /\ UNCHANGED <<lastCmd, discarded>>
    /\ failures' = 0
    /\ reported' = 0
    /\ rounds' = 0
    /\ lastEvent' = NoEvent
    /\ lastInput' = NoInput
    /\ threw' = FALSE
    /\ lastResponse' = NoResponse
    /\ execLog' = <<>>
    /\ sent' = NoSent
    /\ received' = <<>>
    /\ displayed' = <<>>
    /\ UNCHANGED <<toolUseBlocks, toolResults, cfg, running, store>>
    /\ UNCHANGED <<aliasVars, handlerVars, clientVars>>

\* sendMessage rejects: the catch block of processConversation, the return of chat()
\* and the caller's prompt()
GatewayFail ==
    /\ pc = "send"
    /\ failures' = failures + 1
    /\ reported' = reported + 1
    /\ messages' = CatchMessages(messages)
    /\ IF CatchContinueLoop
       THEN /\ pc' = "send"
            /\ UNCHANGED chatOutcome
       ELSE /\ chatOutcome' = ChatEnds("gateway")
            /\ pc' = AfterChat
    /\ execLog' = <<>>
    /\ sent' = SendMessageArgs(messages, sent)
    /\ received' = <<>>
    /\ displayed' = <<>>
    /\ lastResponse' = NoResponse
    /\ lastEvent' = NoEvent
    /\ lastInput' = NoInput
    /\ discarded' = <<>>
    /\ typed' = <<>>
    /\ UNCHANGED <<toolUseBlocks, toolResults, cfg, lastCmd, roundEnd, running, threw,
                   store, rounds, chatBase>>
    /\ UNCHANGED <<aliasVars, handlerVars, clientVars>>

\* sendMessage resolves: handleResponse up to the first execute(), or to its return
GatewayRespond ==
    /\ pc = "send"
    /\ \E response \in ResponsesWithin(cfg.kinds, cfg.maxBlocks, FreshBase(messages),
                                        cfg.maxMsgs - Len(messages)) :
        LET contentBlocks == response.content
            uses == ToolUses(contentBlocks)
        IN  /\ lastResponse' = IF Len(uses) > 0 THEN NoResponse ELSE response
            /\ received' = contentBlocks
            /\ displayed' = Displayed(contentBlocks)
            /\ rounds' = IF Len(uses) > 0 THEN rounds + 1 ELSE rounds
            /\ IF Len(uses) > 0
               THEN /\ messages' = Append(messages, AssistantMessage(contentBlocks))
                    /\ toolUseBlocks' = uses
                    /\ toolResults' = <<>>
                    /\ execLog' = <<>>
                    /\ pc' = "exec"
                    /\ UNCHANGED <<roundEnd, chatOutcome>>
               ELSE IF HasText(contentBlocks) /\ response.stop_reason = "end_turn"
               THEN /\ messages' = Append(messages, BlockMessage("assistant", contentBlocks))
                    /\ roundEnd' = messages'
                    /\ chatOutcome' = ChatEnds("none")
                    /\ pc' = AfterChat
                    /\ execLog' = <<>>
                    /\ UNCHANGED <<toolUseBlocks, toolResults>>
               ELSE IF response.stop_reason = "tool_use"
               THEN /\ pc' = "send"
                    /\ execLog' = <<>>
                    /\ UNCHANGED <<messages, roundEnd, chatOutcome, toolUseBlocks,
                                   toolResults>>
               ELSE /\ chatOutcome' = ChatEnds("none")
                    /\ pc' = AfterChat
                    /\ execLog' = <<>>
                    /\ UNCHANGED <<messages, roundEnd, toolUseBlocks, toolResults>>
    /\ sent' = SendMessageArgs(messages, sent)
    /\ lastEvent' = NoEvent
    /\ lastInput' = NoInput
    /\ discarded' = <<>>
    /\ typed' = <<>>
    /\ UNCHANGED <<cfg, lastCmd, failures, reported, running, threw, store, chatBase>>
    /\ UNCHANGED <<aliasVars, handlerVars, clientVars>>

\* the for loop of handleResponse calls execute() for the next tool_use block
ExecuteCall ==
    /\ pc = "exec"
    /\ LET toolUse == toolUseBlocks[NextToolIndex(toolUseBlocks, toolResults)]
       IN  /\ execLog' = Append(execLog, <<"call", toolUse.id>>)
           /\ running' = running \cup {toolUse.id}
    /\ pc' = "inExec"
    /\ lastEvent' = NoEvent
    /\ lastInput' = NoInput
    /\ UNCHANGED <<messages, toolUseBlocks, toolResults, cfg, lastCmd, lastResponse,
                   roundEnd, failures, reported, chatOutcome, threw, store, discarded,
                   rounds, chatBase, sent, received, displayed, typed>>
    /\ UNCHANGED <<aliasVars, handlerVars, clientVars>>

\* execute() settles: the result is pushed; after the last one the bundling user
\* message is pushed and processConversation loops
ExecuteReturn ==
    /\ pc = "inExec"
    /\ LET toolUse == toolUseBlocks[NextToolIndex(toolUseBlocks, toolResults)]
       IN \E event \in HandlerEvents(toolUse.name), input \in cfg.inputs :
            /\ EventPossible(store, toolUse.name, input, event)
            /\ store' = Commit(store, toolUse.name, input, event)
            /\ lastInput' = input
            /\ execLog' = Append(execLog, <<"return", toolUse.id>>)
            /\ running' = running \ {toolUse.id}
            /\ lastEvent' = [name |-> toolUse.name, event |-> event]
            /\ IF ExecuteThrows(toolUse.name, event)
               THEN \* the error reaches the catch block of processConversation
                    /\ threw' = TRUE
                    /\ reported' = reported + 1
                    /\ chatOutcome' = ChatEnds("tool")
                    /\ pc' = AfterChat
                    /\ toolUseBlocks' = <<>>
                    /\ toolResults' = <<>>
                    /\ UNCHANGED <<messages, roundEnd>>
               ELSE LET results == Append(toolResults,
                                      ToolResultBlock(toolUse,
                                          Execute(toolUse.name, input, event)))
                    IN  IF LoopDone(results, toolUseBlocks)
                        THEN /\ messages' = Append(messages, BlockMessage("user", results))
                             /\ roundEnd' = messages'
                             /\ toolUseBlocks' = <<>>
                             /\ toolResults' = <<>>
                             /\ pc' = "send"
                             /\ UNCHANGED <<threw, reported, chatOutcome>>
                        ELSE /\ toolResults' = results
                             /\ pc' = "exec"
                             /\ UNCHANGED <<messages, roundEnd, toolUseBlocks, threw,
                                            reported, chatOutcome>>
    /\ UNCHANGED <<cfg, lastCmd, lastResponse, failures, discarded, rounds, chatBase,
                   sent, received, displayed, typed>>
    /\ UNCHANGED <<aliasVars, handlerVars, clientVars>>

Next ==
    \/ SessionStart
    \/ PromptCallback
    \/ GatewayFail
    \/ GatewayRespond
    \/ ExecuteCall
    \/ ExecuteReturn

Spec == Init /\ [][Next]_vars

SpecTools == InitTools /\ [][Next]_vars

SpecRounds == InitRounds /\ [][Next]_vars

SpecStore == InitStore /\ [][Next]_vars

SpecSessions == InitSessions /\ [][Next]_vars

SpecUpdate == InitUpdate /\ [][Next]_vars

SpecLongRound == InitLongRound /\ [][Next]_vars

(***************************************************************************)
(* getHistory and its caller.  this.messages is an array of references to  *)
(* message objects; a caller of the public methods holds the array that    *)
(* getHistory() returned and does to it what JavaScript lets it do.  The   *)
(* gateway of these runs answers a chat() with text or fails.              *)
(***************************************************************************)
Object(role, content) == [role |-> role, content |-> content]

\* the messages an array of references stands for
Deref(refs, objs) == [i \in 1..Len(refs) |-> objs[refs[i]]]

\* this.messages.push of a new object
ApiAddContext ==
    /\ pc = "api"
    /\ Len(objects) + 2 <= AliasMaxObjs
    /\ objects' = objects \o <<Object("user", "[Context] project"),
                               Object("assistant",
                                      "I understand the context. How can I help you?")>>
    /\ held' = held \o <<Len(objects) + 1, Len(objects) + 2>>
    /\ op' = "addContext"
    /\ UNCHANGED snapshot
    /\ UNCHANGED <<sessionVars, handlerVars, clientVars>>

\* chat(): the user message is pushed, the gateway is called with this.messages
\* and, when it answers, the assistant message is pushed
ApiChat ==
    /\ pc = "api"
    /\ \E answers \in BOOLEAN :
        LET n == Len(objects)
        IN  IF answers
            THEN /\ n + 2 <= AliasMaxObjs
                 /\ objects' = objects \o <<Object("user", "hi"),
                                            Object("assistant", "answer")>>
                 /\ held' = held \o <<n + 1, n + 2>>
            ELSE /\ n + 1 <= AliasMaxObjs
                 /\ objects' = Append(objects, Object("user", "hi"))
                 /\ held' = Append(held, n + 1)
    /\ op' = "chat"
    /\ UNCHANGED snapshot
    /\ UNCHANGED <<sessionVars, handlerVars, clientVars>>

\* this.messages = []
ApiClearHistory ==
    /\ pc = "api"
    /\ held' = <<>>
    /\ op' = "clearHistory"
    /\ UNCHANGED <<objects, snapshot>>
    /\ UNCHANGED <<sessionVars, handlerVars, clientVars>>

\* return [...this.messages]: a new array of the same references
GetHistory ==
    /\ pc = "api"
    /\ snapshot' = [taken |-> TRUE, refs |-> held]
    /\ op' = "getHistory"
    /\ UNCHANGED <<objects, held>>
    /\ UNCHANGED <<sessionVars, handlerVars, clientVars>>

\* the caller: snapshot.push({role: 'user', content: 'forged'})
CallerPush ==
    /\ pc = "api"
    /\ snapshot.taken
    /\ Len(objects) + 1 <= AliasMaxObjs
    /\ objects' = Append(objects, Object("user", "forged"))
    /\ snapshot' = [snapshot EXCEPT !.refs = Append(@, Len(objects) + 1)]
    /\ op' = "push"
    /\ UNCHANGED held
    /\ UNCHANGED <<sessionVars, handlerVars, clientVars>>

\* the caller: snapshot.pop()
CallerPop ==
    /\ pc = "api"
    /\ snapshot.taken
    /\ snapshot.refs # <<>>
    /\ snapshot' = [snapshot EXCEPT !.refs = SubSeq(@, 1, Len(@) - 1)]
    /\ op' = "pop"
    /\ UNCHANGED <<objects, held>>
    /\ UNCHANGED <<sessionVars, handlerVars, clientVars>>

\* the caller: snapshot[i] = {role: 'user', content: 'forged'}
CallerReplace ==
    /\ pc = "api"
    /\ snapshot.taken
    /\ Len(objects) + 1 <= AliasMaxObjs
    /\ \E i \in 1..Len(snapshot.refs) :
        snapshot' = [snapshot EXCEPT !.refs[i] = Len(objects) + 1]
    /\ objects' = Append(objects, Object("user", "forged"))
    /\ op' = "replace"
    /\ UNCHANGED held
    /\ UNCHANGED <<sessionVars, handlerVars, clientVars>>

\* the caller: snapshot[i].role = role
CallerSetRole ==
    /\ pc = "api"
    /\ snapshot.taken
    /\ \E i \in 1..Len(snapshot.refs), role \in {"user", "assistant"} :
        objects' = [objects EXCEPT ![snapshot.refs[i]].role = role]
    /\ op' = "setRole"
    /\ UNCHANGED <<held, snapshot>>
    /\ UNCHANGED <<sessionVars, handlerVars, clientVars>>

\* the caller: snapshot[i].content = 'edited'
CallerSetContent ==
    /\ pc = "api"
    /\ snapshot.taken
    /\ \E i \in 1..Len(snapshot.refs) :
        objects' = [objects EXCEPT ![snapshot.refs[i]].content = "edited"]
    /\ op' = "setContent"
    /\ UNCHANGED <<held, snapshot>>
    /\ UNCHANGED <<sessionVars, handlerVars, clientVars>>

NextAlias ==
    \/ ApiAddContext
    \/ ApiChat
    \/ ApiClearHistory
    \/ GetHistory
    \/ CallerPush
    \/ CallerPop
    \/ CallerReplace
    \/ CallerSetRole
    \/ CallerSetContent

SpecAlias == InitAlias /\ [][NextAlias]_vars

(***************************************************************************)
(* Properties.                                                             *)
(***************************************************************************)
Last(seq) == seq[Len(seq)]

InChat == pc \in {"send", "exec", "inExec"}

\* msgs[i] holds K > 0 tool invocations and msgs[i + 1] answers them one by one
Answered(msgs, i) ==
    LET uses == ToolUses(msgs[i].blocks)
    IN  /\ i < Len(msgs)
        /\ msgs[i + 1].role = "user"
        /\ msgs[i + 1].kind = "blocks"
        /\ Len(msgs[i + 1].blocks) = Len(uses)
        /\ \A j \in 1..Len(uses) :
              /\ msgs[i + 1].blocks[j].type = "tool_result"
              /\ msgs[i + 1].blocks[j].id = uses[j].id

\* C1: in the History of every gateway call and after every chat() call that has
\* returned, every assistant message with K > 0 tool invocations is followed at once
\* by one user message of exactly K tool results, in order, with matching ids.
C1_RoundAlternation ==
    pc \in {"send", "prompt", "exited"} =>
        \A i \in 1..Len(messages) :
            (messages[i].role = "assistant" /\ ToolUses(messages[i].blocks) # <<>>)
                => Answered(messages, i)

\* a gateway call is pending on a History whose last round answered two invocations
C1_Witness ==
    /\ pc = "send"
    /\ Len(messages) >= 3
    /\ Last(messages).role = "user"
    /\ Len(Last(messages).blocks) = 2
    /\ Len(ToolUses(messages[Len(messages) - 1].blocks)) = 2
    /\ Last(messages).blocks[1].id # Last(messages).blocks[2].id

\* C2: a failing gateway call leaves History as it was at the end of the previous
\* round (in round 1: the prior History plus the new user message), and that is the
\* History after the chat() call.
C2_FailurePurity ==
    [][failures' > failures => (messages' = roundEnd /\ messages' = messages)]_vars

\* the gateway failed in round 2: History ends with the bundling message of round 1
C2_Witness ==
    /\ failures = 1
    /\ pc = "prompt"
    /\ Len(messages) >= 3
    /\ Last(messages).role = "user"
    /\ Last(messages).kind = "blocks"

\* C3: a response with no tool invocation and stop reason end_turn, whatever its
\* content, appends exactly one assistant message holding it and ends the loop.
C3_NoToolTermination ==
    [][(pc = "send" /\ lastResponse'.stop_reason = "end_turn")
        => (/\ messages' = Append(messages, BlockMessage("assistant", lastResponse'.content))
            /\ pc' = "prompt")]_vars

\* the calls and returns of execute() for the invocations uses, one after another
ExpectedLog(uses) ==
    [k \in 1..2 * Len(uses) |->
        <<IF k % 2 = 1 THEN "call" ELSE "return", uses[(k + 1) \div 2].id>>]

\* C4: execute() is called once per invocation, in the order of the response, each
\* call only after the previous one has returned; no two calls are in progress.
C4_SequentialDispatch ==
    /\ Cardinality(running) <= 1
    /\ pc \in {"exec", "inExec"} =>
          execLog = SubSeq(ExpectedLog(toolUseBlocks), 1,
                           2 * Len(toolResults) + (IF pc = "inExec" THEN 1 ELSE 0))
    /\ (pc = "send" /\ execLog # <<>>) =>
          /\ Len(messages) >= 2
          /\ execLog = ExpectedLog(ToolUses(messages[Len(messages) - 1].blocks))

\* a round of at least two invocations has been dispatched to its end
C4_Witness ==
    /\ pc = "send"
    /\ Len(execLog) >= 4
    /\ execLog[2][1] = "return"
    /\ execLog[3][1] = "call"

\* C5: after a failed gateway call the chat() call makes no further gateway call and
\* executes no tool; at most one gateway call fails per chat() call.
C5_NoRetry ==
    /\ failures <= 1
    /\ failures > 0 => ~InChat

\* a gateway call has failed and the chat() call is over
C5_Witness == failures = 1 /\ ~InChat /\ reported = 1

\* C6: when a gateway call fails during chat(), chat() ends with an error outcome
\* its caller can observe.
C6_FailureSurfaced ==
    (failures > 0 /\ ~InChat) => chatOutcome = "threw"

\* the invocation whose execute() call is in progress or next
Current == toolUseBlocks[Len(toolResults) + 1]

\* the step that settles execute() pushes result r and the round goes on: the next
\* invocation is up, or the bundling message is appended and the gateway called
RoundGoesOn(r) ==
    /\ ~threw'
    /\ IF Len(toolResults) + 1 = Len(toolUseBlocks)
       THEN /\ pc' = "send"
            /\ messages' = Append(messages, BlockMessage("user", Append(toolResults, r)))
       ELSE /\ pc' = "exec"
            /\ toolResults' = Append(toolResults, r)
            /\ messages' = messages

\* C7: execute() of a name that is not registered returns {success:false,
\* error:"Unknown tool: <name>"} without throwing; the orchestrator records the
\* result under the invocation's id, executes the rest of the round and goes on to
\* the next round.
C7_UnknownToolTolerance ==
    [][(pc = "inExec" /\ Current.name \notin ToolName) =>
        RoundGoesOn([type |-> "tool_result", text |-> <<>>, id |-> Current.id,
                     name |-> "",
                     content |-> [success |-> FALSE,
                                  error |-> <<"Unknown tool: ", Current.name>>]])]_vars

\* an unknown tool came first in a round, a registered one after it was executed and
\* the next gateway call is pending
C7_Witness ==
    /\ pc = "send"
    /\ Len(messages) >= 2
    /\ Len(Last(messages).blocks) = 2
    /\ messages[Len(messages) - 1].blocks[1].name = "not_a_real_tool"
    /\ Last(messages).blocks[1].content.error = <<"Unknown tool: ", "not_a_real_tool">>
    /\ Last(messages).blocks[2].content.success

StoreHandlers ==
    {"create_story", "update_story", "list_stories", "create_feature",
     "list_features", "search_stories", "analyze_story_quality"}

HandlerFailures == {"store_error", "missing", "bad_input"}

\* the result the round holds for the execute() call that settled last
LastResult ==
    IF pc = "send" THEN Last(Last(messages).blocks).content
    ELSE Last(toolResults).content

\* C8: a store failure, a missing record or a bad input inside a handler never
\* escapes execute(); it becomes a {success:false, error} result in the round's
\* results and the loop continues with the next gateway call.
C8_HandlerErrorsRecovered ==
    (lastEvent.name \in StoreHandlers /\ lastEvent.event \in HandlerFailures) =>
        /\ ~threw
        /\ pc \in {"exec", "send"}
        /\ LastResult.success = FALSE
        /\ LastResult.error # <<>>

\* create_story hit a store error, its failure result is in History and the next
\* gateway call is pending
C8_Witness ==
    /\ lastEvent = [name |-> "create_story", event |-> "store_error"]
    /\ pc = "send"
    /\ Last(Last(messages).blocks).content.error[1] = "Failed to create story: "

\* C9: when the user cancels the prompt of ask_user_question or present_draft, the
\* cancellation leaves execute() and the round loop as an error that ends the chat()
\* call: no further gateway call is made in it.
C9_CancellationEndsChat ==
    (lastEvent.name \in InteractiveTools /\ lastEvent.event = "cancelled") =>
        (threw /\ ~InChat)

\* C10: after every chat() call, whatever its outcome, the prompt is issued again;
\* the session ends only when the user enters exit or quit.
C10_SessionSurvival ==
    [][/\ (InChat /\ ~InChat') => pc' = "prompt"
       /\ (pc' = "exited" /\ pc # "exited") =>
            (pc = "prompt" /\ lastCmd' \in {<<"e", "x", "i", "t">>, <<"q", "u", "i", "t">>})
       /\ pc = "exited" => pc' = "exited"]_vars

\* a second chat() call of the session has ended and the prompt is issued again
C10_Witness ==
    /\ pc = "prompt"
    /\ chatOutcome = "returned"
    /\ Cardinality({i \in 1..Len(messages) :
                       messages[i] = StringMessage("user", <<"h", "i">>)}) >= 2

(***************************************************************************)
(* Properties of History.                                                  *)
(***************************************************************************)
\* msgs starts with a user message and no two adjacent messages share a role
Alternates(msgs) ==
    /\ msgs # <<>> => msgs[1].role = "user"
    /\ \A i \in 1..Len(msgs) - 1 : msgs[i].role # msgs[i + 1].role

\* C11: the History handed to the gateway is strictly alternating in role: it starts
\* with a user message and no two adjacent messages have the same role, whatever
\* addContext, chat() (a failing gateway call and a non-terminal stop reason
\* included) and clearHistory calls came before.
C11_RoleAlternation == pc = "send" => Alternates(messages)

\* C12: a response with no tool invocation whose stop reason is not end_turn does
\* not end the turn: the loop goes on to a further gateway call.
C12_NonTerminalContinues ==
    [][(/\ pc = "send"
        /\ lastResponse' # NoResponse
        /\ lastResponse'.stop_reason # "end_turn") => pc' = "send"]_vars

\* C13: when chat() has returned and no error occurred in it, the model has given
\* its final answer (History ends with an assistant message that asks for no tool)
\* and no tool invocation is left unanswered.
C13_ReturnsResolved ==
    (pc = "prompt" /\ chatOutcome = "returned" /\ failures = 0 /\ ~threw) =>
        /\ lastResponse.stop_reason = "end_turn"
        /\ Len(messages) > chatBase + 1
        /\ Last(messages).role = "assistant"
        /\ ToolUses(Last(messages).blocks) = <<>>

\* old is a prefix of new
IsPrefix(old, new) ==
    /\ Len(old) <= Len(new)
    /\ \A i \in 1..Len(old) : new[i] = old[i]

\* C14: History is append-only: a step of chat() or addContext leaves every message
\* that was in History unchanged and in place; only clearHistory removes messages.
C14_AppendOnly ==
    [][\/ IsPrefix(messages, messages')
       \/ /\ pc = "prompt"
          /\ pc' = "prompt"
          /\ discarded' = <<Len(messages)>>
          /\ messages' = <<>>]_vars

\* the context pair and a whole chat() after it are in History
C14_Witness ==
    /\ pc = "prompt"
    /\ Len(messages) = 4
    /\ messages[1].text = <<"[Context] ", "project">>
    /\ messages[2].role = "assistant"
    /\ messages[3] = [role |-> "user", kind |-> "string", text |-> <<"h", "i">>,
                      blocks |-> <<>>]
    /\ messages[4].role = "assistant"
    /\ messages[4].kind = "blocks"

\* C15: nothing a caller does to the array getHistory() returned, or to a message
\* object in it, changes the orchestrator's History.
C15_NoAliasing ==
    [][op' \in {"push", "pop", "replace", "setRole", "setContent"}
        => Deref(held', objects') = Deref(held, objects)]_vars

\* C16: addContext appends exactly two messages, the user message with the context
\* text and the assistant message with the canned acknowledgment; no gateway call
\* and no tool execution is part of it.
C16_AddContextPair ==
    [][pc = "start" =>
        /\ \/ messages' = messages
           \/ messages' =
                messages \o
                <<[role |-> "user", kind |-> "string",
                   text |-> <<"[Context] ", "project">>, blocks |-> <<>>],
                  [role |-> "assistant", kind |-> "string",
                   text |-> <<"I understand the context. How can I help you?">>,
                   blocks |-> <<>>]>>
        /\ pc' = "prompt"
        /\ UNCHANGED <<lastResponse, failures, execLog, running, lastEvent, store,
                       toolUseBlocks, toolResults>>]_vars

\* addContext has run: History is the pair and the first prompt is up
C16_Witness ==
    /\ pc = "prompt"
    /\ chatOutcome = "none"
    /\ Len(messages) = 2
    /\ messages[1].role = "user"
    /\ messages[1].text[1] = "[Context] "
    /\ messages[2].text = <<"I understand the context. How can I help you?">>

\* C17: right after clearHistory History is empty, and the first gateway call of the
\* next chat(userText) receives exactly one message, the user message with userText.
C17_ClearDiscardsAll ==
    discarded # <<>> =>
        /\ pc \in {"prompt", "exited", "send"}
        /\ pc \in {"prompt", "exited"} => messages = <<>>
        /\ pc = "send" =>
              messages = <<[role |-> "user", kind |-> "string",
                            text |-> <<"h", "i">>, blocks |-> <<>>]>>

\* a History of the context pair and more was cleared and the next chat() is at its
\* first gateway call
C17_Witness ==
    /\ discarded # <<>>
    /\ discarded[1] >= 3
    /\ pc = "send"

\* the messages the current (or last) chat() call has appended
Appended == SubSeq(messages, chatBase + 1, Len(messages))

\* C18: a chat() call of n rounds with tool invocations and then a plain text answer
\* with end_turn has appended one user message, then n pairs of an assistant message
\* and a bundling user message, then the final assistant message: n + 1 assistant
\* messages and n bundling user messages; then the loop is left.
C18_MessageCounts ==
    (/\ pc = "prompt"
     /\ chatOutcome = "returned"
     /\ lastResponse.stop_reason = "end_turn"
     /\ HasText(lastResponse.content)) =>
        /\ Len(Appended) = 2 * rounds + 2
        /\ Appended[1] = [role |-> "user", kind |-> "string", text |-> <<"h", "i">>,
                          blocks |-> <<>>]
        /\ Cardinality({i \in 2..Len(Appended) : Appended[i].role = "assistant"})
              = rounds + 1
        /\ Cardinality({i \in 2..Len(Appended) : Appended[i].role = "user"}) = rounds
        /\ \A k \in 1..rounds :
              /\ Appended[2 * k].role = "assistant"
              /\ ToolUses(Appended[2 * k].blocks) # <<>>
              /\ Appended[2 * k + 1].role = "user"
              /\ Appended[2 * k + 1].kind = "blocks"
              /\ Len(Appended[2 * k + 1].blocks) = Len(ToolUses(Appended[2 * k].blocks))
        /\ Last(Appended).role = "assistant"
        /\ Last(Appended).blocks = lastResponse.content

\* ask_user_question, present_draft, create_story, then the final text: 4 assistant
\* messages and 3 bundling user messages of one tool result each
C18_Witness ==
    /\ pc = "prompt"
    /\ chatOutcome = "returned"
    /\ rounds = 3
    /\ Len(Appended) = 8
    /\ Appended[2].blocks[1].name = "ask_user_question"
    /\ Appended[4].blocks[1].name = "present_draft"
    /\ Appended[6].blocks[1].name = "create_story"
    /\ \A k \in 1..3 : Len(Appended[2 * k + 1].blocks) = 1
    /\ HasText(Appended[8].blocks)
    /\ lastResponse.stop_reason = "end_turn"

(***************************************************************************)
(* Properties of the Document Store.                                       *)
(***************************************************************************)
\* C19: when an invocation of a round returns a failure result, what the earlier
\* invocations of the round wrote to the Document Store stays as it is, and the
\* round goes on: the next invocation is up, or, after the last one, the bundling
\* message with a result for every invocation is appended.
C19_NoRollbackNoShortCircuit ==
    [][(pc = "inExec" /\ lastEvent'.event \notin {"ok", "answered"}) =>
        /\ store' = store
        /\ ~threw'
        /\ IF Len(toolResults) + 1 = Len(toolUseBlocks)
           THEN /\ pc' = "send"
                /\ Len(messages') = Len(messages) + 1
                /\ Len(Last(messages').blocks) = Len(toolUseBlocks)
                /\ ~Last(Last(messages').blocks).content.success
           ELSE /\ pc' = "exec"
                /\ toolUseBlocks' = toolUseBlocks
                /\ Len(toolResults') = Len(toolResults) + 1
                /\ ~Last(toolResults').content.success
                /\ messages' = messages]_vars

\* a round of three: create_story wrote its story, the second invocation failed,
\* the third was executed; the story is in the Document Store
C19_Witness ==
    /\ pc = "send"
    /\ Len(messages) >= 2
    /\ Len(Last(messages).blocks) = 3
    /\ messages[Len(messages) - 1].blocks[1].name = "create_story"
    /\ Last(messages).blocks[1].content.success
    /\ ~Last(messages).blocks[2].content.success
    /\ Last(messages).blocks[3].content.success
    /\ store.stories # {}

\* the key of the story an input names
KeyOf(input) ==
    <<"features", IF input.feature = "" THEN "backlog" ELSE input.feature,
      "stories", input.id>>

\* C20: create_story for a key that holds a record, and create_feature for an id
\* that holds a feature, succeed and leave exactly one record under the key: the
\* new one, with status draft.
C20_OverwriteOnDuplicate ==
    [][/\ (/\ pc = "inExec"
           /\ lastEvent' = [name |-> "create_story", event |-> "ok"]
           /\ \E f \in store.stories : f.path = KeyOf(lastInput')) =>
            /\ LastResult'.success
            /\ {f.content : f \in {g \in store'.stories : g.path = KeyOf(lastInput')}}
                  = {[id |-> lastInput'.id, title |-> lastInput'.title,
                      status |-> "draft", feature |-> lastInput'.feature]}
            /\ Cardinality({g \in store'.stories : g.path = KeyOf(lastInput')}) = 1
            /\ Cardinality(store'.stories) = Cardinality(store.stories)
       /\ (/\ pc = "inExec"
           /\ lastEvent' = [name |-> "create_feature", event |-> "ok"]
           /\ \E f \in store.features : f.content.id = lastInput'.id) =>
            /\ LastResult'.success
            /\ {g \in store'.features : g.content.id = lastInput'.id}
                  = {[path |-> <<"features", lastInput'.id, "feature.md">>,
                      content |-> [id |-> lastInput'.id, title |-> lastInput'.title,
                                   status |-> "draft"]]}
            /\ Cardinality(store'.features) = Cardinality(store.features)]_vars

\* two create_story invocations of one round have both succeeded, on the same key:
\* the Document Store holds one story, the second one's
C20_Witness ==
    /\ pc = "send"
    /\ Len(messages) >= 2
    /\ Len(Last(messages).blocks) = 2
    /\ \A j \in 1..2 :
          /\ messages[Len(messages) - 1].blocks[j].name = "create_story"
          /\ Last(messages).blocks[j].content.success
    /\ lastInput.title = "B"
    /\ store.stories =
          {[path |-> <<"features", "backlog", "stories", "s1">>,
            content |-> [id |-> "s1", title |-> "B", status |-> "draft",
                         feature |-> ""]]}

\* C21: update_story for a key (feature or "backlog", id) that holds no record
\* returns success:false and leaves the Document Store exactly as it was.
C21_UpdateMissing ==
    [][(/\ pc = "inExec"
        /\ lastEvent'.name = "update_story"
        /\ ~Exists(store.stories, KeyOf(lastInput'))) =>
            /\ ~LastResult'.success
            /\ LastResult'.error # <<>>
            /\ store' = store]_vars

\* update_story has found no story under backlog/s1 while the Document Store holds
\* a story of feature f1; its result names the missing story
C21_Witness ==
    /\ lastEvent = [name |-> "update_story", event |-> "missing"]
    /\ lastInput.feature = ""
    /\ store.stories # {}
    /\ \A f \in store.stories : f.path = <<"features", "f1", "stories", "s1">>
    /\ LastResult.error = <<"Story \"", "s1", "\" not found in feature \"", "backlog", "\"">>

(***************************************************************************)
(* The handler runs: the read-only handlers of ToolExecutor called on a    *)
(* Document Store that earlier sessions have filled.  A stored story has   *)
(* the fields markdownToStory gives it; its texts are sequences of         *)
(* characters.                                                             *)
(***************************************************************************)
\* the stories in the Document Store of a query run
QueryMaxStories == 3

StoryStatus == {"draft", "ready", "in-progress", "done"}

Story(id, feature, status, title, asA, iWant, soThat, acs, openQuestions, edgeCases, tags) ==
    [id |-> id, feature |-> feature, status |-> status, title |-> title,
     asA |-> asA, iWant |-> iWant, soThat |-> soThat,
     acceptanceCriteria |-> acs, openQuestions |-> openQuestions,
     edgeCases |-> edgeCases, tags |-> tags, dependencies |-> <<>>]

\* stories that create_story and update_story have written; an absent optional
\* text is <<>>
StoryPool ==
    {Story("s1", "", "draft", <<"A", "c", "e">>, <<"h", "i">>, <<>>, <<>>,
           <<>>, <<>>, <<>>, <<>>),
     Story("s2", "", "ready", <<"p", "i">>, <<>>, <<"l", "i", "t">>, <<"u", "p">>,
           << <<"c", "a", "t">> >>, <<>>, <<>>, <<>>),
     Story("s1", "f1", "draft", <<"h", "a", "t">>, <<>>, <<>>, <<>>,
           <<>>, << <<"q", "u", "i", "t">> >>, << <<"e", "x">> >>, <<>>),
     Story("s2", "f1", "done", <<"R", "u", "l", "e">>, <<"a">>, <<>>, <<>>,
           << <<"t", "i", "e">>, <<"r", "a", "t">> >>, <<>>, <<>>,
           << <<"X", "L">> >>),
     Story("s1", "f2", "ready", <<"l", "i", "p">>, <<>>, <<>>, <<"a", "x", "e">>,
           <<>>, <<>>, <<>>, <<>>)}

\* the file createStory writes for a story
StoryFile(story) == File(StoryPath(FeatureOr(story.feature), story.id), story)

\* StorySchema.parse in markdownToStory accepts the file's content
Parses(content) == content.status \in StoryStatus

\* StorageManager.listStories: the files of one feature's directory, or of every
\* feature's when featureId is falsy, that parse
StorageListStories(files, featureId) ==
    {f \in files : /\ featureId = "" \/ f.path[2] = featureId
                   /\ Parses(f.content)}

\* listStories of ToolExecutor with the status filter left out
listStoriesNoStatus(files, input) ==
    LET stories == StorageListStories(files, input.feature)
    IN  [success |-> TRUE, error |-> <<>>,
         data |-> [count |-> Cardinality(stories), stories |-> stories]]

\* listStories of ToolExecutor: the envelope it returns
listStories(files, input) ==
    LET all == StorageListStories(files, input.feature)
        stories == IF input.status # ""
                   THEN {f \in all : f.content.status = input.status}
                   ELSE all
    IN  [success |-> TRUE, error |-> <<>>,
         data |-> [count |-> Cardinality(stories), stories |-> stories]]

\* the texts searchStories looks into, in its order
SearchFields(story) ==
    <<story.title, story.asA, story.iWant, story.soThat>> \o story.acceptanceCriteria
        \o story.openQuestions \o story.edgeCases \o story.tags

\* Array.prototype.filter(Boolean) on texts: the empty and the absent ones go
Truthy(texts) == SelectSeq(texts, LAMBDA t : t # <<>>)

\* Array.prototype.join
RECURSIVE Join(_, _)
Join(texts, sep) ==
    IF texts = <<>> THEN <<>>
    ELSE IF Len(texts) = 1 THEN texts[1]
         ELSE texts[1] \o sep \o Join(Tail(texts), sep)

\* String.prototype.includes
Includes(text, q) ==
    \E i \in 0..Len(text) : i + Len(q) <= Len(text) /\ SubSeq(text, i + 1, i + Len(q)) = q

\* StorageManager.searchStories
StorageSearchStories(files, query) ==
    LET lowerQuery == ToLowerCase(query)
    IN  {f \in StorageListStories(files, "") :
            Includes(ToLowerCase(Join(Truthy(SearchFields(f.content)), <<" ">>)),
                     lowerQuery)}

\* searchStories of ToolExecutor: the envelope it returns
searchStories(files, input) ==
    LET stories == StorageSearchStories(files, input.query)
    IN  [success |-> TRUE, error |-> <<>>,
         data |-> [query |-> input.query, count |-> Cardinality(stories),
                   stories |-> stories]]

Queries ==
    {<<"a">>, <<"A", "C">>, <<"i", "t">>, <<"x", "l">>, <<"q", "q">>,
     <<"c", "e", " ", "h", "i">>}

ListInputs ==
    [feature : {"", "backlog", "f1", "f3"}, status : {"", "draft", "done", "in-progress"}]

\* the Document Stores of the query runs
QueryStores ==
    {[stories |-> {StoryFile(st) : st \in S}, features |-> {}] :
        S \in {T \in SUBSET StoryPool : Cardinality(T) <= QueryMaxStories}}

InitQuery ==
    /\ \E st \in QueryStores : SessionInit(OrchCfg, "tool", st)
    /\ AliasInit
    /\ HandlerInit
    /\ ClientInit(NoKey, NoKey, "models")

\* execute('list_stories', input)
ListStories ==
    /\ pc = "tool"
    /\ \E input \in ListInputs :
        /\ call' = [name |-> "list_stories", input |-> input]
        /\ outcome' = listStories(store.stories, input)
    /\ asked' = <<>>
    /\ UNCHANGED <<at, sessionVars, aliasVars, clientVars>>

\* execute('search_stories', input)
SearchStories ==
    /\ pc = "tool"
    /\ \E query \in Queries :
        /\ call' = [name |-> "search_stories", input |-> [query |-> query]]
        /\ outcome' = searchStories(store.stories, call'.input)
    /\ asked' = <<>>
    /\ UNCHANGED <<at, sessionVars, aliasVars, clientVars>>

NextQuery ==
    \/ ListStories
    \/ SearchStories

SpecQuery == InitQuery /\ [][NextQuery]_vars

\* the stored stories a list_stories input asks for
Wanted(input) ==
    {f \in store.stories :
        /\ input.feature # "" => f.path[2] = input.feature
        /\ input.status # "" => f.content.status = input.status}

\* C22: list_stories returns success:true with count = the number of stored stories
\* that match both the optional feature filter and the optional status filter, and
\* success:true with count 0 when none matches.
C22_ListCount ==
    call.name = "list_stories" =>
        /\ outcome.success
        /\ outcome.data.count = Cardinality(Wanted(call.input))
        /\ outcome.data.stories = Wanted(call.input)

\* list_stories with both filters has counted one of the three stored stories: one
\* other is of feature f1 with another status, one is done in another feature
C22_Witness ==
    /\ call = [name |-> "list_stories", input |-> [feature |-> "f1", status |-> "done"]]
    /\ Cardinality(store.stories) = 3
    /\ \E f \in store.stories : f.path[2] = "f1" /\ f.content.status # "done"
    /\ \E f \in store.stories : f.path[2] # "f1"
    /\ outcome.data.count = 1

\* the query is, case-insensitively, a substring of one of the story's fields
InOneField(story, query) ==
    \E i \in DOMAIN SearchFields(story) :
        Includes(ToLowerCase(SearchFields(story)[i]), ToLowerCase(query))

\* C27: search_stories returns a stored story exactly when the query is,
\* case-insensitively, a substring of at least one of its title, asA, iWant, soThat,
\* acceptance-criterion texts, open questions, edge cases or tags; a query that no
\* single field contains does not match.
C27_PerFieldMatch ==
    call.name = "search_stories" =>
        /\ outcome.success
        /\ outcome.data.stories =
               {f \in store.stories : InOneField(f.content, call.input.query)}
        /\ outcome.data.count = Cardinality(outcome.data.stories)

(***************************************************************************)
(* The INVEST runs: analyze_story_quality on a Document Store that holds   *)
(* one story.                                                              *)
(***************************************************************************)
\* the most acceptance criteria and dependencies of the story of an INVEST run
InvestMaxAcs == 8
InvestMaxDeps == 1

\* n texts
Texts(n) == [i \in 1..n |-> <<"t">>]

InvestStories ==
    {[Story("s1", "", "draft", <<"A">>, <<>>, <<>>, soThat, Texts(acs), Texts(oqs),
            <<>>, <<>>) EXCEPT !.dependencies = Texts(deps)] :
        soThat \in {<<>>, <<"u", "p">>}, acs \in 0..InvestMaxAcs, oqs \in 0..1,
        deps \in 0..InvestMaxDeps}

Dimensions ==
    <<"independent", "negotiable", "valuable", "estimable", "small", "testable">>

\* Small scores 8 only for a story that has acceptance criteria
InvestScoresSmallNeedsCriteria(story) ==
    <<IF Len(story.dependencies) = 0 THEN 10 ELSE 5,
      IF Len(story.openQuestions) > 0 THEN 8 ELSE 6,
      IF story.soThat # <<>> THEN 8 ELSE 4,
      IF Len(story.acceptanceCriteria) >= 3 THEN 8 ELSE 5,
      IF Len(story.acceptanceCriteria) \in 1..7 THEN 8 ELSE 4,
      IF Len(story.acceptanceCriteria) > 0 THEN 8 ELSE 2>>

\* the scores of analyzeStoryQuality, in the order of its scores array
InvestScores(story) ==
    <<IF Len(story.dependencies) = 0 THEN 10 ELSE 5,
      IF Len(story.openQuestions) > 0 THEN 8 ELSE 6,
      IF story.soThat # <<>> THEN 8 ELSE 4,
      IF Len(story.acceptanceCriteria) >= 3 THEN 8 ELSE 5,
      IF Len(story.acceptanceCriteria) <= 7 THEN 8 ELSE 4,
      IF Len(story.acceptanceCriteria) > 0 THEN 8 ELSE 2>>

RECURSIVE Sum(_)
Sum(ns) == IF ns = <<>> THEN 0 ELSE Head(ns) + Sum(Tail(ns))

\* Math.round(n / d) of a quotient of naturals, which truncates instead
RoundDown(n, d) == n \div d

\* Math.round(n / d) of a quotient of naturals: the nearest integer, the upper one
\* of two equally near
Round(n, d) == (2 * n + d) \div (2 * d)

\* the dimensions analyzeStoryQuality has a suggestion for, with the suggestion, in
\* the order of its if statements
SuggestionOf ==
    <<[dimension |-> "independent",
       text |-> "Consider reducing dependencies on other stories"],
      [dimension |-> "valuable",
       text |-> "Clarify the business value with a stronger \"so that\" clause"],
      [dimension |-> "estimable", text |-> "Add more specific acceptance criteria"],
      [dimension |-> "small", text |-> "Consider breaking this story into smaller pieces"],
      [dimension |-> "testable", text |-> "Add measurable acceptance criteria"]>>

IndexOf(seq, x) == CHOOSE i \in DOMAIN seq : seq[i] = x

Suggestions(scores) ==
    SelectSeq(SuggestionOf, LAMBDA sg : scores[IndexOf(Dimensions, sg.dimension)] < 7)

\* analyzeStoryQuality of ToolExecutor: the envelope it returns
analyzeStoryQuality(files, input) ==
    IF ~Exists(files, StoryPath(input.featureId, input.storyId))
    THEN [success |-> FALSE,
          error |-> NotFound("analyze_story_quality", [id |-> input.storyId]),
          data |-> <<>>]
    ELSE LET story == ReadFile(files, StoryPath(input.featureId, input.storyId))
             scores == InvestScores(story)
         IN  [success |-> TRUE, error |-> <<>>,
              data |-> [storyId |-> input.storyId,
                        analysis |-> [scores |-> scores,
                                      overallScore |-> Round(Sum(scores), Len(scores)),
                                      suggestions |-> Suggestions(scores)]]]

AnalyzeInputs == [storyId : {"s1", "s2"}, featureId : {"backlog", "f1"}]

InitInvest ==
    /\ \E story \in InvestStories :
        SessionInit(OrchCfg, "tool", [stories |-> {StoryFile(story)}, features |-> {}])
    /\ AliasInit
    /\ HandlerInit
    /\ ClientInit(NoKey, NoKey, "models")

\* execute('analyze_story_quality', input)
AnalyzeStoryQuality ==
    /\ pc = "tool"
    /\ \E input \in AnalyzeInputs :
        /\ call' = [name |-> "analyze_story_quality", input |-> input]
        /\ outcome' = analyzeStoryQuality(store.stories, input)
    /\ asked' = <<>>
    /\ UNCHANGED <<at, sessionVars, aliasVars, clientVars>>

NextInvest ==
    \/ AnalyzeStoryQuality

SpecInvest == InitInvest /\ [][NextInvest]_vars

\* the story analyze_story_quality has analysed
Analysed == (CHOOSE f \in store.stories : TRUE).content

HasAnalysis == call.name = "analyze_story_quality" /\ outcome.success

\* C23: the INVEST scores are a fixed function of the record: Independent 10 with no
\* dependencies else 5; Negotiable 8 with an open question else 6; Valuable 8 with
\* soThat set else 4; Estimable 8 with 3 or more acceptance criteria else 5; Small 8
\* with 7 or fewer else 4; Testable 8 with one or more else 2; the overall score is
\* their mean rounded to the nearest integer, a half rounding up; 10,8,8,8,8,8
\* gives 8.
C23_InvestScores ==
    HasAnalysis =>
        LET a == outcome.data.analysis
            total == a.scores[1] + a.scores[2] + a.scores[3] + a.scores[4]
                         + a.scores[5] + a.scores[6]
            acs == Len(Analysed.acceptanceCriteria)
        IN  /\ a.scores[1] = (IF Analysed.dependencies = <<>> THEN 10 ELSE 5)
            /\ a.scores[2] = (IF Analysed.openQuestions # <<>> THEN 8 ELSE 6)
            /\ a.scores[3] = (IF Analysed.soThat # <<>> THEN 8 ELSE 4)
            /\ a.scores[4] = (IF acs >= 3 THEN 8 ELSE 5)
            /\ a.scores[5] = (IF acs <= 7 THEN 8 ELSE 4)
            /\ a.scores[6] = (IF acs >= 1 THEN 8 ELSE 2)
            /\ 6 * a.overallScore + 2 >= total
            /\ 6 * a.overallScore <= total + 3
            /\ a.scores = <<10, 8, 8, 8, 8, 8>> => a.overallScore = 8

\* a story with one dependency and every other score 8 has been analysed: the mean
\* is 7.5 and the overall score 8
C23_Witness ==
    /\ HasAnalysis
    /\ outcome.data.analysis.scores = <<5, 8, 8, 8, 8, 8>>
    /\ outcome.data.analysis.overallScore = 8

\* C24: the suggestions hold the fixed message of every one of the six dimensions
\* that scores below 7, and no message of a dimension that scores 7 or more.
C24_SuggestionsComplete ==
    HasAnalysis =>
        LET a == outcome.data.analysis
        IN  \A d \in DOMAIN Dimensions :
                (a.scores[d] < 7) <=>
                    \E i \in DOMAIN a.suggestions :
                        a.suggestions[i].dimension = Dimensions[d]

(***************************************************************************)
(* The prompt runs: the interactive handlers ask_user_question and         *)
(* present_draft, one await at a time, with a user who answers every       *)
(* prompt.                                                                 *)
(***************************************************************************)
\* the most options the model gives with a question
PromptMaxOptions == 2

Sentinel == "__custom__"

Option(label, value) == [label |-> label, value |-> value]

OtherOption == Option("Other (custom answer)", Sentinel)

\* an optional input is <<>> when absent and <<v>> when given: x ?? d
Nullish(x, d) == IF x = <<>> THEN d ELSE x[1]

\* askUserQuestion: the options put to the user
QuestionOptions(input) ==
    IF Nullish(input.allowCustom, TRUE)
    THEN Append(input.options, OtherOption)
    ELSE input.options

\* the values of the checked options, in the order of the choices
RECURSIVE Checked(_, _)
Checked(options, picks) ==
    IF options = <<>> THEN <<>>
    ELSE (IF 1 \in picks THEN <<Head(options).value>> ELSE <<>>)
             \o Checked(Tail(options), {i - 1 : i \in picks \ {1}})

\* askUserQuestion: the test of "Handle custom answer"; the answer of askMultiSelect
\* is an array, the answer of askSelect a string
IsCustom(answer, isArray) ==
    IF isArray THEN \E i \in DOMAIN answer : answer[i] = Sentinel
    ELSE answer = Sentinel

\* askUserQuestion: the answer once the user has typed a custom one
WithCustom(answer, customAnswer, isArray) ==
    IF isArray
    THEN Append(SelectSeq(answer, LAMBDA a : a # Sentinel), customAnswer)
    ELSE customAnswer

\* the envelope askUserQuestion returns
AnswerResult(input, answer) ==
    [success |-> TRUE, error |-> <<>>,
     data |-> [question |-> input.question, answer |-> answer]]

\* the options the model gives: up to PromptMaxOptions of them
GivenOptions ==
    LET plain == <<Option("A", "a"), Option("B", "b"), Option("C", "c")>>
        clash == <<Option("A", "a"), Option("X", Sentinel), Option("B", "b")>>
    IN  {SubSeq(opts, 1, n) : opts \in {plain, clash}, n \in 1..PromptMaxOptions}

AskInputs ==
    [question : {"q"}, options : GivenOptions,
     allowCustom : {<<>>, <<TRUE>>, <<FALSE>>}, multiSelect : {<<>>, <<TRUE>>}]

TypedTexts == {"red", "", Sentinel}

\* the last answer the user gave
LastAnswer == asked[Len(asked)].answer

\* execute('ask_user_question', input) up to its first await
AskUserQuestion ==
    /\ at = "idle"
    /\ \E input \in AskInputs :
        /\ call' = [name |-> "ask_user_question", input |-> input]
        /\ at' = IF Nullish(input.multiSelect, FALSE) THEN "checkbox" ELSE "list"
    /\ outcome' = NoResult
    /\ asked' = <<>>
    /\ UNCHANGED <<sessionVars, aliasVars, clientVars>>

\* the user answers the choice prompt: askSelect or askMultiSelect resolves
Select ==
    /\ at \in {"list", "checkbox"}
    /\ LET options == QuestionOptions(call.input)
       IN  \E answer \in IF at = "list"
                         THEN {options[i].value : i \in DOMAIN options}
                         ELSE {Checked(options, picks) : picks \in SUBSET DOMAIN options} :
               /\ asked' = Append(asked, [type |-> at, message |-> call.input.question,
                                          choices |-> options, answer |-> answer])
               /\ IF IsCustom(answer, at = "checkbox")
                  THEN /\ at' = "input"
                       /\ UNCHANGED outcome
                  ELSE /\ at' = "idle"
                       /\ outcome' = AnswerResult(call.input, answer)
    /\ UNCHANGED <<call, sessionVars, aliasVars, clientVars>>

\* the user types the custom answer: askQuestion resolves
TypeCustom ==
    /\ at = "input"
    /\ call.name = "ask_user_question"
    /\ \E customAnswer \in TypedTexts :
        /\ asked' = Append(asked, [type |-> "input", message |-> "Please enter your answer:",
                                   choices |-> <<>>, answer |-> customAnswer])
        /\ outcome' = AnswerResult(call.input, WithCustom(LastAnswer, customAnswer,
                                                           asked[Len(asked)].type = "checkbox"))
    /\ at' = "idle"
    /\ UNCHANGED <<call, sessionVars, aliasVars, clientVars>>

\* presentDraft with a second confirmation after an approval
ConfirmedTwice(approved) == IF approved THEN "confirm" ELSE "input"

\* presentDraft: the await that follows the confirmation, "idle" when it returns
AfterConfirm(approved) == IF approved THEN "idle" ELSE "input"

DraftInputs == {[title |-> "A", asA |-> "user", iWant |-> "x", soThat |-> "y"]}

FeedbackTexts == {"shorter", ""}

\* execute('present_draft', input) up to its first await: displayDraft, then
\* askConfirm is pending
PresentDraft ==
    /\ at = "idle"
    /\ \E input \in DraftInputs :
        /\ call' = [name |-> "present_draft", input |-> input]
        /\ asked' = <<[type |-> "draft", message |-> "Story Draft",
                       choices |-> <<>>, answer |-> input]>>
    /\ at' = "confirm"
    /\ outcome' = NoResult
    /\ UNCHANGED <<sessionVars, aliasVars, clientVars>>

\* the user answers the yes/no confirmation: askConfirm resolves
Confirm ==
    /\ at = "confirm"
    /\ \E approved \in BOOLEAN :
        /\ asked' = Append(asked, [type |-> "confirm",
                                   message |-> "Do you approve this story draft?",
                                   choices |-> <<>>, answer |-> approved])
        /\ at' = AfterConfirm(approved)
        /\ outcome' = IF approved
                      THEN [success |-> TRUE, error |-> <<>>,
                            data |-> [approved |-> TRUE,
                                      message |-> "Draft approved by user"]]
                      ELSE outcome
    /\ UNCHANGED <<call, sessionVars, aliasVars, clientVars>>

\* the user types what to change: askQuestion resolves
Feedback ==
    /\ at = "input"
    /\ call.name = "present_draft"
    /\ \E feedback \in FeedbackTexts :
        /\ asked' = Append(asked, [type |-> "input",
                                   message |-> "What would you like to change?",
                                   choices |-> <<>>, answer |-> feedback])
        /\ outcome' = [success |-> TRUE, error |-> <<>>,
                       data |-> [approved |-> FALSE, feedback |-> feedback]]
    /\ at' = "idle"
    /\ UNCHANGED <<call, sessionVars, aliasVars, clientVars>>

InitPrompts == InitCfg(OrchCfg, "tool")

NextPrompts ==
    \/ AskUserQuestion
    \/ Select
    \/ TypeCustom
    \/ PresentDraft
    \/ Confirm
    \/ Feedback

SpecPrompts == InitPrompts /\ [][NextPrompts]_vars

\* the handler called last has returned
Returned == at = "idle" /\ outcome.success

\* the free-text prompts put to the user so far
FreeTextPrompts == SelectSeq(asked, LAMBDA a : a.type = "input")

\* the answer holds the sentinel
HoldsSentinel(answer, isArray) ==
    IF isArray THEN \E i \in DOMAIN answer : answer[i] = Sentinel
    ELSE answer = Sentinel

\* C25: ask_user_question shows exactly one extra "Other" option when allowCustom is
\* true or absent; when the user selects it there is exactly one free-text prompt and
\* the returned answer holds the typed text in place of the sentinel (the text alone
\* for a single choice; the other checked values and then the text for a multiple
\* choice); the returned answer never holds the sentinel; with allowCustom false
\* there is no "Other" option and no free-text prompt.
C25_CustomAnswers ==
    (call.name = "ask_user_question" /\ asked # <<>>) =>
        LET input == call.input
            allow == Nullish(input.allowCustom, TRUE)
            multi == asked[1].type = "checkbox"
            picked == asked[1].answer
            other == IF multi
                     THEN \E i \in DOMAIN picked : picked[i] = Sentinel
                     ELSE picked = Sentinel
        IN  /\ asked[1].choices =
                   (IF allow THEN input.options \o <<OtherOption>> ELSE input.options)
            /\ ~allow => FreeTextPrompts = <<>> /\ at # "input"
            /\ Returned =>
                /\ ~HoldsSentinel(outcome.data.answer, multi)
                /\ Len(FreeTextPrompts) = (IF allow /\ other THEN 1 ELSE 0)
                /\ (allow /\ other) =>
                       outcome.data.answer =
                           (IF multi
                            THEN SelectSeq(picked, LAMBDA a : a # Sentinel)
                                     \o <<asked[2].answer>>
                            ELSE asked[2].answer)
                /\ ~(allow /\ other) => outcome.data.answer = picked

\* C26: present_draft displays the draft and then asks exactly one yes/no
\* confirmation; on approval it returns success:true with approved:true and asks
\* nothing more; on rejection it asks exactly one free-text prompt and returns
\* success:true with approved:false and the feedback; it never writes to the
\* Document Store.
C26_DraftProtocol ==
    call.name = "present_draft" =>
        /\ store = EmptyStore
        /\ asked[1].type = "draft"
        /\ at = "confirm" => Len(asked) = 1
        /\ Len(asked) >= 2 => asked[2].type = "confirm"
        /\ at = "input" => Len(asked) = 2 /\ ~asked[2].answer
        /\ at \in {"confirm", "input", "idle"}
        /\ at = "idle" =>
            /\ outcome.success
            /\ IF asked[2].answer
               THEN /\ Len(asked) = 2
                    /\ outcome.data = [approved |-> TRUE,
                                       message |-> "Draft approved by user"]
               ELSE /\ Len(asked) = 3
                    /\ asked[3].type = "input"
                    /\ outcome.data = [approved |-> FALSE, feedback |-> asked[3].answer]

\* present_draft has returned after a rejection with the feedback the user typed
C26_Witness ==
    /\ call.name = "present_draft"
    /\ Returned
    /\ Len(asked) = 3
    /\ outcome.data = [approved |-> FALSE, feedback |-> "shorter"]

(***************************************************************************)
(* The gateway client runs: sendMessage's first step, getAnthropicClient,  *)
(* while the settings file changes under it.  The sources hold two         *)
(* getAnthropicClient: the one of ai/client.ts, which ConversationManager  *)
(* imports, and the one that follows the schemas in models/index.ts; a run *)
(* has one of them.  The environment of the process does not change.       *)
(***************************************************************************)
\* the number of keys the settings file takes in turn
ClientMaxKeys == 2

\* the number of gateway calls of a run
ClientMaxCalls == 4

SettingsKeys == {<<"sk-settings", n>> : n \in 1..ClientMaxKeys}

EnvKeys == {<<"sk-env", 0>>}

\* getApiKey of config/settings.ts
getApiKey(env, settings) == IF env # NoKey THEN env ELSE settings

\* new Anthropic({ apiKey })
Anthropic(apiKey) == [built |-> TRUE, apiKey |-> apiKey]

EnvNotSet == "ANTHROPIC_API_KEY environment variable is not set."

NoKeyConfigured == "No API key configured."

Thrown(error) ==
    [called |-> TRUE, threw |-> TRUE, error |-> error, client |-> NoClient,
     fresh |-> FALSE, sent |-> FALSE, calls |-> 0, previous |-> NoClient]

Got(cl, fresh) ==
    [called |-> TRUE, threw |-> FALSE, error |-> "", client |-> cl,
     fresh |-> fresh, sent |-> TRUE, calls |-> 0, previous |-> NoClient]

\* getAnthropicClient of ai/client.ts followed by client.messages.create: the new
\* module state and the outcome
ClientOfEnv(env, cl) ==
    IF ~cl.built
    THEN IF env = NoKey
         THEN [client |-> cl, got |-> Thrown(EnvNotSet)]
         ELSE [client |-> Anthropic(env), got |-> Got(Anthropic(env), TRUE)]
    ELSE [client |-> cl, got |-> Got(cl, FALSE)]

\* the test of "Recreate client if API key changed" without the comparison of keys
StaleNever(cl, cur, apiKey) == ~cl.built

\* the test of "Recreate client if API key changed"
Stale(cl, cur, apiKey) == ~cl.built \/ cur # apiKey

\* getAnthropicClient of models/index.ts followed by client.messages.create
ClientOfKey(env, settings, cl, cur) ==
    LET apiKey == getApiKey(env, settings)
    IN  IF apiKey = NoKey
        THEN [client |-> cl, currentApiKey |-> cur, got |-> Thrown(NoKeyConfigured)]
        ELSE IF Stale(cl, cur, apiKey)
             THEN [client |-> Anthropic(apiKey), currentApiKey |-> apiKey,
                   got |-> Got(Anthropic(apiKey), TRUE)]
             ELSE [client |-> cl, currentApiKey |-> cur, got |-> Got(cl, FALSE)]

InitClient ==
    /\ SessionInit(OrchCfg, "client", EmptyStore)
    /\ AliasInit
    /\ HandlerInit
    /\ \E e \in EnvKeys \cup {NoKey}, k \in SettingsKeys \cup {NoKey},
          v \in {"ai/client", "models"} : ClientInit(e, k, v)

\* sendMessage with the getAnthropicClient of ai/client.ts
SendMessageEnvOnly ==
    /\ pc = "client"
    /\ variant = "ai/client"
    /\ got.calls < ClientMaxCalls
    /\ LET r == ClientOfEnv(apiKeyEnv, client)
       IN  /\ client' = r.client
           /\ got' = [r.got EXCEPT !.calls = got.calls + 1, !.previous = client]
    /\ UNCHANGED <<apiKeyEnv, settingsKey, currentApiKey, variant>>
    /\ UNCHANGED <<sessionVars, aliasVars, handlerVars>>

\* sendMessage with the getAnthropicClient of models/index.ts
SendMessage ==
    /\ pc = "client"
    /\ variant = "models"
    /\ got.calls < ClientMaxCalls
    /\ LET r == ClientOfKey(apiKeyEnv, settingsKey, client, currentApiKey)
       IN  /\ client' = r.client
           /\ currentApiKey' = r.currentApiKey
           /\ got' = [r.got EXCEPT !.calls = got.calls + 1, !.previous = client]
    /\ UNCHANGED <<apiKeyEnv, settingsKey, variant>>
    /\ UNCHANGED <<sessionVars, aliasVars, handlerVars>>

\* saveSettings: the config command writes another key
SaveSettings ==
    /\ pc = "client"
    /\ \E k \in SettingsKeys :
        /\ k # settingsKey
        /\ settingsKey' = k
    /\ got' = [NoOutcome EXCEPT !.calls = got.calls]
    /\ UNCHANGED <<apiKeyEnv, client, currentApiKey, variant>>
    /\ UNCHANGED <<sessionVars, aliasVars, handlerVars>>

\* deleteSettings
DeleteSettings ==
    /\ pc = "client"
    /\ settingsKey # NoKey
    /\ settingsKey' = NoKey
    /\ got' = [NoOutcome EXCEPT !.calls = got.calls]
    /\ UNCHANGED <<apiKeyEnv, client, currentApiKey, variant>>
    /\ UNCHANGED <<sessionVars, aliasVars, handlerVars>>

NextClient ==
    \/ SendMessageEnvOnly
    \/ SendMessage
    \/ SaveSettings
    \/ DeleteSettings

SpecClient == InitClient /\ [][NextClient]_vars

\* the credential the spec resolves: the environment's key when set, else the
\* settings' key, NoKey when neither is there
Resolved == IF apiKeyEnv # NoKey THEN apiKeyEnv ELSE settingsKey

\* C28: the key a gateway call uses is ANTHROPIC_API_KEY whenever it is set, and
\* the key of the persisted settings otherwise; with neither, the call fails with a
\* descriptive error before a request is sent.
C28_KeyPrecedence ==
    got.called =>
        IF Resolved = NoKey
        THEN got.threw /\ got.error # "" /\ ~got.sent
        ELSE ~got.threw /\ got.sent /\ got.client.apiKey = Resolved

\* C29: a client that getAnthropicClient returns was built with the credential
\* resolved at that call; it is a new client on the first call and whenever that
\* credential differs from the one the cached client was built with, and the cached
\* client otherwise.
C29_CacheFollowsKey ==
    [][(got'.called /\ ~got'.threw) =>
            /\ got'.client = client'
            /\ client' = Anthropic(Resolved)
            /\ got'.fresh <=> (~client.built \/ client.apiKey # Resolved)
            /\ ~got'.fresh => got'.client = client]_vars

\* the settings' key has changed since the cached client was built and the call
\* has returned a new client, built with the new key
C29_Witness ==
    /\ got.called
    /\ got.fresh
    /\ apiKeyEnv = NoKey
    /\ got.previous = Anthropic(<<"sk-settings", 1>>)
    /\ got.client = Anthropic(<<"sk-settings", 2>>)
    /\ client = got.client

\* a chat() call starts: its user message is pushed
ChatStarts ==
    /\ Len(messages') = Len(messages) + 1
    /\ Last(messages') \in {StringMessage("user", l) :
                               l \in {Trim(i) : i \in cfg.lines}
                                         \cup {OpeningText(c) : c \in Commands}}

\* C30: in a chat, story new or feature new session a line is read and a chat()
\* started only when the previous chat() has completed, so at most one chat(), one
\* gateway call and one tool execution is in progress and one activity at a time
\* changes the History.
C30_OneChatAtATime ==
    [][/\ ChatStarts => (chatOutcome # "pending" /\ ~InChat /\ running = {})
       /\ messages' # messages =>
              \/ ChatStarts
              \/ InChat /\ chatOutcome = "pending"
              \/ ~InChat /\ chatOutcome # "pending"
       /\ InChat' => chatOutcome' = "pending"
       /\ Cardinality(running') <= 1
       /\ running' # {} => pc' = "inExec"]_vars

\* a story new or feature new session has read a line at its prompt, after the
\* opening chat() completed, and the chat() of that line is in progress
C30_Witness ==
    /\ cfg.command # "chat"
    /\ pc = "send"
    /\ chatOutcome = "pending"
    /\ Len(messages) >= 3
    /\ messages[1] = StringMessage("user", OpeningText(cfg.command))
    /\ Last(messages) = StringMessage("user", <<"h", "i">>)

\* the execute() calls of the current round that have returned
Returns(log) == SelectSeq(log, LAMBDA e : e[1] = "return")

\* C31: in a round with K >= 1 tool invocations exactly one user message is appended
\* for the tool results, after all K invocations have been executed; the results
\* are never split over several messages.
C31_SingleBundle ==
    [][(pc \in {"exec", "inExec"}) =>
          /\ messages' # messages =>
                /\ pc = "inExec"
                /\ messages' = Append(messages, Last(messages'))
                /\ Last(messages').role = "user"
                /\ Len(Last(messages').blocks) = Len(toolUseBlocks)
                /\ Len(Returns(execLog')) = Len(toolUseBlocks)
          /\ pc' = "send" => messages' # messages]_vars

\* a round of two invocations has ended: its two results are in one user message
C31_Witness ==
    /\ pc = "send"
    /\ Len(messages) >= 3
    /\ Last(messages).role = "user"
    /\ Len(Last(messages).blocks) = 2
    /\ Len(ToolUses(messages[Len(messages) - 1].blocks)) = 2

\* C32: in a round with tool invocations the response is in History as an assistant
\* message before the first tool of the round is executed, and through the round:
\* its content is the full list of content items of the response, in their order.
C32_AssistantFirst ==
    pc \in {"exec", "inExec"} =>
        /\ Last(messages).role = "assistant"
        /\ Last(messages).kind = "blocks"
        /\ Last(messages).blocks = received
        /\ toolUseBlocks = ToolUses(received)

\* no tool of the round has been executed, and the response mixed text and a tool
C32_Witness ==
    /\ pc = "exec"
    /\ execLog = <<>>
    /\ Len(received) = 2
    /\ IsToolUse(received[1])
    /\ IsText(received[2])

C34_TextDisplay ==
    /\ Len(displayed) = Len(SelectSeq(received, IsText))
    /\ \A k \in 1..Len(displayed) :
          /\ displayed[k].item \in 1..Len(received)
          /\ IsText(received[displayed[k].item])
          /\ displayed[k].text = received[displayed[k].item].text
    /\ \A j, k \in 1..Len(displayed) :
          j < k => displayed[j].item < displayed[k].item

\* the text item that follows a tool invocation in the response has been displayed,
\* and no tool of the round has been executed
C34_Witness ==
    /\ pc = "exec"
    /\ execLog = <<>>
    /\ Len(received) = 2
    /\ IsToolUse(received[1])
    /\ displayed = <<[item |-> 2, text |-> received[2].text]>>

ReadOnlyTools ==
    {"list_stories", "list_features", "search_stories", "analyze_story_quality",
     "ask_user_question", "present_draft"}

\* C36: executing list_stories, list_features, search_stories,
\* analyze_story_quality, ask_user_question or present_draft, with any outcome,
\* leaves the story and feature records as they were; the Document Store changes
\* only during an execute call of create_story, update_story or create_feature.
C36_ReadOnlyFrame ==
    [][/\ (pc = "inExec" /\ lastEvent'.name \in ReadOnlyTools) => store' = store
       /\ store' # store =>
            /\ pc = "inExec"
            /\ lastEvent'.name \in {"create_story", "update_story", "create_feature"}]_vars

\* a read-only handler has run to its end over a store that holds a record
C36_Witness ==
    /\ store # EmptyStore
    /\ lastEvent.name \in ReadOnlyTools
    /\ lastEvent.event \in {"ok", "answered"}

\* the keys (feature, id) the Document Store holds a story under
StoryKeys(st) == {f.path : f \in st.stories}

\* C37: after a successful update_story on (feature, id), for any updates object,
\* the Document Store holds the same record keys as before; the record at
\* (feature, id) is the old record with the fields named in updates replaced, and
\* no record is created under another feature or id.
C37_UpdateInPlace ==
    [][(/\ pc = "inExec"
        /\ lastEvent' = [name |-> "update_story", event |-> "ok"]
        /\ LastResult'.success) =>
            LET key == KeyOf(lastInput')
                old == ReadFile(store.stories, key)
                new == ReadFile(store'.stories, key)
            IN  /\ StoryKeys(store') = StoryKeys(store)
                /\ \A k \in DOMAIN old :
                      new[k] = IF k \in DOMAIN lastInput'.updates
                               THEN lastInput'.updates[k] ELSE old[k]
                /\ \A f \in store.stories : f.path # key => f \in store'.stories
                /\ store'.features = store.features]_vars

\* the inputs of the chat session that are not sent to the model
SessionCommands == {<<>>} \cup ExitWords \cup {ClearWord, HelpWord}

\* C38: in the interactive chat session a blank line and the inputs exit, quit,
\* clear and help, in any letter case and after trimming, start no chat() and
\* append no user message to History; clear empties History, the others leave it
\* as it is.
C38_SessionCommands ==
    [][(/\ cfg.command = "chat"
        /\ pc = "prompt"
        /\ ToLowerCase(Trim(typed')) \in SessionCommands) =>
            /\ pc' \notin {"send", "exec", "inExec"}
            /\ chatOutcome' # "pending"
            /\ sent' = NoSent
            /\ IF ToLowerCase(Trim(typed')) = ClearWord
               THEN messages' = <<>>
               ELSE messages' = messages]_vars

\* CLEAR has been typed over a History of two messages and more: History is empty
\* and the prompt is up again
C38_Witness ==
    /\ cfg.command = "chat"
    /\ typed = <<"C", "L", "E", "A", "R">>
    /\ pc = "prompt"
    /\ discarded # <<>>
    /\ discarded[1] >= 2
    /\ messages = <<>>

\* C39: for every story record the overall score analyze_story_quality returns is
\* an integer between 5 and 8 inclusive, and at least one of the scores Estimable,
\* Small and Testable is 8.
C39_OverallRange ==
    HasAnalysis =>
        LET a == outcome.data.analysis
        IN  /\ a.overallScore \in 5..8
            /\ \E d \in {4, 5, 6} :
                  /\ Dimensions[d] \in {"estimable", "small", "testable"}
                  /\ a.scores[d] = 8

\* the story with the lowest scores has been analysed: a dependency, no open
\* question, no soThat, no acceptance criterion; Small alone is 8 and the overall
\* score is 5
C39_Witness ==
    /\ HasAnalysis
    /\ Analysed.acceptanceCriteria = <<>>
    /\ outcome.data.analysis.scores = <<5, 6, 4, 5, 8, 2>>
    /\ outcome.data.analysis.overallScore = 5

====
